---- MODULE Spec2Model ----
(***************************************************************************)
(* Log-path resolution of src/pesapal_service_fix.py: the module body      *)
(* (called resolve() in the specification) run by a few independent        *)
(* processes that share one file system.                                   *)
(*                                                                         *)
(* Paths are strings, handled character by character the way os.path does. *)
(* The file system is the set of existing directories (absolute, in the    *)
(* host's spelling) and the set of those the process may create entries    *)
(* in.  Directories are never removed and permissions never change.        *)
(***************************************************************************)
EXTENDS Integers, Sequences, FiniteSets, TLC

VARIABLES
  osname,            \* os.name of the host
  environ,           \* os.environ: the variables that are set, with their values
  restrictive_umask, \* a directory a process makes does not let it create entries in it
  dirs,              \* the directories that exist
  writable,          \* the directories the processes may create entries in
  dirs0,             \* the directories that existed before any process started
  pc,                \* where each process is: start, try, retry, returned, raised
  log_path,          \* each process's binding of log_path
  stack,             \* the names of each process's nested os.makedirs calls, innermost first
  attempts,          \* how many times each process has called os.makedirs from the module
  errno,             \* the error of the mkdir that last raised in each process
  created,           \* the directories each process has made
  startedAfter,      \* the processes that had returned when each process started
  raced,             \* a process found a directory made between its check and its mkdir
  steps              \* how many steps each process has taken

vars == <<osname, environ, restrictive_umask, dirs, writable, dirs0,
          pc, log_path, stack, attempts, errno, created, startedAfter, raced, steps>>

\* Number of independent processes that run the module body.
NumProcs == 2

Procs == 1..NumProcs

-----------------------------------------------------------------------------
\* Strings

\* os.name of a POSIX-like and of a Windows-like host.
Hosts == {"posix", "nt"}

Ch(s, i) == SubSeq(s, i, i)

startswith(s, prefix) ==
  Len(s) >= Len(prefix) /\ SubSeq(s, 1, Len(prefix)) = prefix

\* os.sep and the characters os.path treats as separators.
sep(os) == IF os = "nt" THEN "\\" ELSE "/"

seps(os) == IF os = "nt" THEN {"\\", "/"} ELSE {"/"}

\* ntpath.splitdrive for a drive-letter path; posixpath has no drives.
DriveLen(os, p) == IF os = "nt" /\ Len(p) >= 2 /\ Ch(p, 2) = ":" THEN 2 ELSE 0

\* Index of the last separator of p[lo+1..i], 0 when there is none.
RECURSIVE RFindSepFrom(_, _, _, _)
RFindSepFrom(os, p, lo, i) ==
  IF i <= lo THEN 0
  ELSE IF Ch(p, i) \in seps(os) THEN i
  ELSE RFindSepFrom(os, p, lo, i - 1)

\* Index of the last separator of p after the drive, 0 when there is none.
RFindSep(os, p) == RFindSepFrom(os, p, DriveLen(os, p), Len(p))

\* head.rstrip(seps), but a head made of separators only is kept
\* (posixpath: head != sep*len(head); ntpath: head.rstrip(seps) or head).
RECURSIVE RStripSeps(_, _, _)
RStripSeps(os, p, lo) ==
  IF Len(p) > lo /\ Ch(p, Len(p)) \in seps(os)
  THEN RStripSeps(os, SubSeq(p, 1, Len(p) - 1), lo)
  ELSE p

\* os.path.split(p) = <<head, tail>>.
SplitAt(os, p, d, i) ==
  LET head == SubSeq(p, 1, i)
      stripped == RStripSeps(os, head, d)
  IN <<IF Len(stripped) = d /\ i > d THEN head ELSE stripped,
       SubSeq(p, i + 1, Len(p))>>

split(os, p) ==
  SplitAt(os, p, DriveLen(os, p),
          IF RFindSep(os, p) = 0 THEN DriveLen(os, p) ELSE RFindSep(os, p))

dirname(os, p) == split(os, p)[1]

\* os.path.join(a, b) for a component b that is neither rooted nor has a
\* drive (the only kind the module body joins).
join2(os, a, b) ==
  IF a = "" \/ Ch(a, Len(a)) \in seps(os) \/ (os = "nt" /\ Ch(a, Len(a)) = ":")
  THEN a \o b
  ELSE a \o sep(os) \o b

join(os, a, b, c) == join2(os, join2(os, a, b), c)

-----------------------------------------------------------------------------
\* The host: current directory, root, and how the kernel resolves a name.

\* os.getcwd(): the directory the processes were started in.
getcwd(os) == IF os = "nt" THEN "C:\\app" ELSE "/app"

root(os) == IF os = "nt" THEN "C:\\" ELSE "/"

\* On a Windows-like host both separators name the same entry.
RECURSIVE Backslashes(_)
Backslashes(p) ==
  IF RFindSepFrom("posix", p, 0, Len(p)) = 0 THEN p
  ELSE Backslashes(SubSeq(p, 1, RFindSepFrom("posix", p, 0, Len(p)) - 1))
         \o "\\" \o SubSeq(p, RFindSepFrom("posix", p, 0, Len(p)) + 1, Len(p))

\* The directory entry a non-empty name denotes: relative names are
\* resolved against the current directory (and drive).
abspath(os, p) ==
  IF os = "nt"
  THEN LET q == Backslashes(p)
       IN IF DriveLen(os, q) > 0 THEN q
          ELSE IF startswith(q, "\\") THEN "C:" \o q
          ELSE join2(os, getcwd(os), q)
  ELSE IF startswith(p, "/") THEN p ELSE join2(os, getcwd(os), p)

-----------------------------------------------------------------------------
\* The module body, lines 16-31.

\* os.getenv(key, default)
getenv(env, key, default) == IF key \in DOMAIN env THEN env[key] ELSE default

\* line 16 with the host test lost: TEMP is consulted on every host.
default_log_dir_AnyHost(os, env) == getenv(env, "TEMP", "/tmp")

\* line 16
default_log_dir(os, env) ==
  IF os # "nt" THEN "/tmp" ELSE getenv(env, "TEMP", getcwd(os))

\* lines 17-20: the path the module first binds to log_path.
InitialLogPath(os, env) ==
  getenv(env, "PESAPAL_LOG_PATH",
         join(os, default_log_dir(os, env), "pesapal_logs", "pesapal.log"))

\* line 28 with the leading separator lost.
FallbackLogPath_Relative(os) == join(os, "tmp", "pesapal_logs", "pesapal.log")

\* line 28
FallbackLogPath(os) == join(os, "/tmp", "pesapal_logs", "pesapal.log")

\* line 27: the test that decides between fallback and re-raise.
AlreadyUnderTmp(path) == startswith(path, "/tmp")

\* os.makedirs: head and tail of the name, after "if not tail: split(head)".
MakedirsSplit(os, name) ==
  LET s == split(os, name) IN IF s[2] = "" THEN split(os, s[1]) ELSE s

-----------------------------------------------------------------------------
\* Environments and starting file systems.

LogPathValues ==
  {"/data/logs/p.log", "/tmp/x/p.log", "/tmpdata/x.log", "logs/p.log", "p.log", ""}

TempValues == {"C:\\Temp", "tmp"}

\* os.environ restricted to the two variables the module reads; a variable
\* that is not set is not in the domain.
Environs ==
  {e \in UNION {[D -> LogPathValues \cup TempValues] :
                  D \in SUBSET {"PESAPAL_LOG_PATH", "TEMP"}} :
     /\ "PESAPAL_LOG_PATH" \in DOMAIN e => e["PESAPAL_LOG_PATH"] \in LogPathValues
     /\ "TEMP" \in DOMAIN e => e["TEMP"] \in TempValues}

\* a and the directories above it, the root excluded.
RECURSIVE Ancestors(_, _)
Ancestors(os, a) ==
  IF a = "" \/ a = root(os) \/ dirname(os, a) = a THEN {}
  ELSE {a} \cup Ancestors(os, dirname(os, a))

\* Directories every host has: the root and the current directory.
AlwaysDirs(os) == {root(os)} \cup Ancestors(os, getcwd(os))

\* The names os.makedirs can be called with, on either kind of host: the
\* directory of a path the module binds to log_path, and the heads above it.
RECURSIVE Heads(_, _)
Heads(os, name) ==
  IF MakedirsSplit(os, name)[1] \in {"", name} THEN {name}
  ELSE {name} \cup Heads(os, MakedirsSplit(os, name)[1])

\* InitialLogPath and FallbackLogPath tabulated, with the dirname of the
\* paths they give (the argument of os.makedirs in lines 24 and 29).
InitialOf == [os \in Hosts |-> [env \in Environs |-> InitialLogPath(os, env)]]

FallbackOf == [os \in Hosts |-> FallbackLogPath(os)]

LogPaths == [os \in Hosts |-> {InitialOf[os][env] : env \in Environs} \cup {FallbackOf[os]}]

DirnameOf == [os \in Hosts |-> [path \in LogPaths[os] |-> dirname(os, path)]]

Names == [os \in Hosts |-> UNION {Heads(os, DirnameOf[os][path]) : path \in LogPaths[os]}]

\* abspath, dirname and MakedirsSplit tabulated over those names.
AbsPathOf == [os \in Hosts |-> [n \in Names[os] \ {""} |-> abspath(os, n)]]

AllDirs ==
  [os \in Hosts |->
     AlwaysDirs(os) \cup UNION {Ancestors(os, AbsPathOf[os][n]) : n \in Names[os] \ {""}}]

ParentOf == [os \in Hosts |-> [a \in AllDirs[os] |-> dirname(os, a)]]

SplitOf == [os \in Hosts |-> [n \in Names[os] |-> MakedirsSplit(os, n)]]

\* os.path.exists / os.path.isdir (the file system holds directories only).
exists(os, p, ds) == p # "" /\ AbsPathOf[os][p] \in ds

\* Outcome of the system call mkdir(name) on file system <<ds, wr>>.
MkdirErrno(os, name, ds, wr) ==
  IF name = "" THEN "ENOENT"
  ELSE IF AbsPathOf[os][name] \in ds THEN "EEXIST"
  ELSE IF ParentOf[os][AbsPathOf[os][name]] \notin ds THEN "ENOENT"
  ELSE IF ParentOf[os][AbsPathOf[os][name]] \notin wr THEN "EACCES"
  ELSE "OK"

\* os.makedirs: "if head and tail and not path.exists(head)": recurse first.
MakedirsRecurses(os, name, ds) ==
  /\ SplitOf[os][name][1] # ""
  /\ SplitOf[os][name][2] # ""
  /\ ~exists(os, SplitOf[os][name][1], ds)

\* os.makedirs called without exist_ok=True: no error of mkdir is swallowed.
MakedirsSwallows_NoExistOk(os, name, ds) == FALSE

\* os.makedirs(..., exist_ok=True), lines 24 and 29: an OSError of mkdir is
\* swallowed when exist_ok holds and the name is a directory.
MakedirsSwallows(os, name, ds) == exists(os, name, ds)

\* Directories the module body can look at or create in environment env.
RelevantDirs(os, env) ==
  UNION {Ancestors(os, AbsPathOf[os][d]) :
           d \in {DirnameOf[os][InitialOf[os][env]], DirnameOf[os][FallbackOf[os]]} \ {""}}

\* Directories whose permissions the module body can run into.
PermissionDirs(os, env) ==
  RelevantDirs(os, env) \cup {ParentOf[os][d] : d \in RelevantDirs(os, env)}

Init ==
  /\ osname \in Hosts
  /\ environ \in Environs
  /\ restrictive_umask \in BOOLEAN
  /\ \E S \in SUBSET (RelevantDirs(osname, environ) \ AlwaysDirs(osname)) :
       /\ \A d \in S : ParentOf[osname][d] \in S \cup AlwaysDirs(osname)
       /\ dirs = S \cup AlwaysDirs(osname)
  /\ writable \in SUBSET (dirs \cap PermissionDirs(osname, environ))
  /\ dirs0 = dirs
  /\ pc = [p \in Procs |-> "start"]
  /\ log_path = [p \in Procs |-> "<unbound>"]
  /\ stack = [p \in Procs |-> <<>>]
  /\ attempts = [p \in Procs |-> 0]
  /\ errno = [p \in Procs |-> "none"]
  /\ created = [p \in Procs |-> {}]
  /\ startedAfter = [p \in Procs |-> {}]
  /\ raced = [p \in Procs |-> FALSE]
  /\ steps = [p \in Procs |-> 0]

-----------------------------------------------------------------------------
\* Steps of one process.

\* Every step of a process is counted.
Tick(p) == steps' = [steps EXCEPT ![p] = @ + 1]

\* lines 16-20 and the call of line 24: bind log_path, enter os.makedirs.
Resolve(p) ==
  /\ pc[p] = "start"
  /\ log_path' = [log_path EXCEPT ![p] = InitialOf[osname][environ]]
  /\ stack' = [stack EXCEPT ![p] = <<DirnameOf[osname][log_path'[p]]>>]
  /\ attempts' = [attempts EXCEPT ![p] = 1]
  /\ pc' = [pc EXCEPT ![p] = "try"]
  /\ startedAfter' = [startedAfter EXCEPT ![p] = {q \in Procs : pc[q] = "returned"}]
  /\ Tick(p)
  /\ UNCHANGED <<osname, environ, restrictive_umask, dirs, writable, dirs0, errno, created, raced>>

InMakedirs(p) == pc[p] \in {"try", "retry"} /\ stack[p] # <<>>

\* os.makedirs finds the head missing and calls itself on it.
MakedirsDescend(p) ==
  /\ InMakedirs(p)
  /\ MakedirsRecurses(osname, Head(stack[p]), dirs)
  /\ stack' = [stack EXCEPT ![p] = <<SplitOf[osname][Head(stack[p])][1]>> \o @]
  /\ Tick(p)
  /\ UNCHANGED <<osname, environ, restrictive_umask, dirs, writable, dirs0,
                 pc, log_path, attempts, errno, created, startedAfter, raced>>

\* The innermost os.makedirs returns; the outermost returning ends the
\* try block (line 24) or the handler (line 29) without an error.
MakedirsReturn(p) ==
  /\ stack' = [stack EXCEPT ![p] = Tail(@)]
  /\ pc' = [pc EXCEPT ![p] = IF Tail(stack[p]) = <<>> THEN "returned" ELSE @]

\* mkdir(name) creates the directory.
MkdirOk(p) ==
  /\ InMakedirs(p)
  /\ ~MakedirsRecurses(osname, Head(stack[p]), dirs)
  /\ MkdirErrno(osname, Head(stack[p]), dirs, writable) = "OK"
  /\ dirs' = dirs \cup {AbsPathOf[osname][Head(stack[p])]}
  /\ writable' = writable \cup (IF restrictive_umask THEN {} ELSE {AbsPathOf[osname][Head(stack[p])]})
  /\ created' = [created EXCEPT ![p] = @ \cup {AbsPathOf[osname][Head(stack[p])]}]
  /\ MakedirsReturn(p)
  /\ Tick(p)
  /\ UNCHANGED <<osname, environ, restrictive_umask, dirs0, log_path, attempts, errno,
                 startedAfter, raced>>

\* mkdir(name) raises OSError and os.makedirs swallows it.
MkdirSwallowed(p) ==
  /\ InMakedirs(p)
  /\ ~MakedirsRecurses(osname, Head(stack[p]), dirs)
  /\ MkdirErrno(osname, Head(stack[p]), dirs, writable) # "OK"
  /\ MakedirsSwallows(osname, Head(stack[p]), dirs)
  /\ raced' = [raced EXCEPT ![p] = @ \/ Len(stack[p]) > 1]
  /\ MakedirsReturn(p)
  /\ Tick(p)
  /\ UNCHANGED <<osname, environ, restrictive_umask, dirs, writable, dirs0, log_path,
                 attempts, errno, created, startedAfter>>

\* mkdir(name) raises OSError and os.makedirs lets it through.
MkdirRaises(p) ==
  /\ InMakedirs(p)
  /\ ~MakedirsRecurses(osname, Head(stack[p]), dirs)
  /\ MkdirErrno(osname, Head(stack[p]), dirs, writable) # "OK"
  /\ ~MakedirsSwallows(osname, Head(stack[p]), dirs)
  /\ errno' = [errno EXCEPT ![p] = MkdirErrno(osname, Head(stack[p]), dirs, writable)]

\* lines 25-29: the error of line 24 is caught, log_path is rebound to the
\* fallback and os.makedirs is called again.
ExceptFallback(p) ==
  /\ pc[p] = "try"
  /\ MkdirRaises(p)
  /\ ~AlreadyUnderTmp(log_path[p])
  /\ log_path' = [log_path EXCEPT ![p] = FallbackOf[osname]]
  /\ stack' = [stack EXCEPT ![p] = <<DirnameOf[osname][log_path'[p]]>>]
  /\ attempts' = [attempts EXCEPT ![p] = @ + 1]
  /\ pc' = [pc EXCEPT ![p] = "retry"]
  /\ Tick(p)
  /\ UNCHANGED <<osname, environ, restrictive_umask, dirs, writable, dirs0,
                 created, startedAfter, raced>>

\* The handler with the fallback directory made before the test of line 27.
ExceptReraise_AfterMkdir(p) ==
  /\ pc[p] = "try"
  /\ MkdirRaises(p)
  /\ AlreadyUnderTmp(log_path[p])
  /\ LET fb == DirnameOf[osname][FallbackOf[osname]]
     IN IF MkdirErrno(osname, fb, dirs, writable) = "OK"
        THEN /\ dirs' = dirs \cup {AbsPathOf[osname][fb]}
             /\ writable' = writable \cup (IF restrictive_umask THEN {} ELSE {AbsPathOf[osname][fb]})
             /\ created' = [created EXCEPT ![p] = @ \cup {AbsPathOf[osname][fb]}]
        ELSE UNCHANGED <<dirs, writable, created>>
  /\ stack' = [stack EXCEPT ![p] = <<>>]
  /\ pc' = [pc EXCEPT ![p] = "raised"]
  /\ Tick(p)
  /\ UNCHANGED <<osname, environ, restrictive_umask, dirs0, log_path,
                 attempts, startedAfter, raced>>

\* lines 25-27, 30-31: the error of line 24 is caught and raised again.
ExceptReraise(p) ==
  /\ pc[p] = "try"
  /\ MkdirRaises(p)
  /\ AlreadyUnderTmp(log_path[p])
  /\ stack' = [stack EXCEPT ![p] = <<>>]
  /\ pc' = [pc EXCEPT ![p] = "raised"]
  /\ Tick(p)
  /\ UNCHANGED <<osname, environ, restrictive_umask, dirs, writable, dirs0, log_path,
                 attempts, created, startedAfter, raced>>

\* The handler retrying its own os.makedirs instead of letting the error out.
RetryRaises_TriesAgain(p) ==
  /\ pc[p] = "retry"
  /\ MkdirRaises(p)
  /\ attempts[p] < 4
  /\ stack' = [stack EXCEPT ![p] = <<DirnameOf[osname][log_path[p]]>>]
  /\ attempts' = [attempts EXCEPT ![p] = @ + 1]
  /\ Tick(p)
  /\ UNCHANGED <<osname, environ, restrictive_umask, dirs, writable, dirs0, pc,
                 log_path, created, startedAfter, raced>>

\* line 29: an error of the second os.makedirs leaves the handler uncaught.
RetryRaises(p) ==
  /\ pc[p] = "retry"
  /\ MkdirRaises(p)
  /\ stack' = [stack EXCEPT ![p] = <<>>]
  /\ pc' = [pc EXCEPT ![p] = "raised"]
  /\ Tick(p)
  /\ UNCHANGED <<osname, environ, restrictive_umask, dirs, writable, dirs0, log_path,
                 attempts, created, startedAfter, raced>>

Step(p) ==
  \/ Resolve(p)
  \/ MakedirsDescend(p)
  \/ MkdirOk(p)
  \/ MkdirSwallowed(p)
  \/ ExceptFallback(p)
  \/ ExceptReraise(p)
  \/ RetryRaises(p)

Next == \E p \in Procs : Step(p)

Spec == Init /\ [][Next]_vars

-----------------------------------------------------------------------------
\* Vocabulary of the properties.

Returned(p) == pc[p] = "returned"

Raised(p) == pc[p] = "raised"

Terminal(p) == Returned(p) \/ Raised(p)

LogPathSet == "PESAPAL_LOG_PATH" \in DOMAIN environ

\* The first os.makedirs of p ended in an error.
FirstFailed(p) == attempts[p] = 2 \/ (attempts[p] = 1 /\ Raised(p))

\* Rooted under the directory /tmp, as opposed to beginning with "/tmp".
RootedUnderTmp(os, path) ==
  \/ path = "/tmp"
  \/ startswith(path, "/tmp/")
  \/ os = "nt" /\ startswith(path, "/tmp\\")

\* The fallback path as the host spells it.
FixedFallback(os) ==
  IF os = "nt" THEN "/tmp\\pesapal_logs\\pesapal.log" ELSE "/tmp/pesapal_logs/pesapal.log"

\* Rooted: begins with a separator, after the drive if there is one.
IsAbs(os, path) ==
  Len(path) > DriveLen(os, path) /\ Ch(path, DriveLen(os, path) + 1) \in seps(os)

\* The directory that holds path: the current directory for a bare name.
ParentDir(os, path) ==
  IF DirnameOf[os][path] = "" THEN getcwd(os) ELSE AbsPathOf[os][DirnameOf[os][path]]

\* The path the module first binds to log_path in this environment.
Initial == InitialOf[osname][environ]

\* Directory a, missing from the starting file system, can be made there.
RECURSIVE CanCreate(_)
CanCreate(a) ==
  IF ParentOf[osname][a] \in dirs0
  THEN ParentOf[osname][a] \in writable
  ELSE ~restrictive_umask /\ CanCreate(ParentOf[osname][a])

\* The directories p made that are the directory of a path it tried.
TargetsMadeBy(p) ==
  created[p] \cap {ParentDir(osname, path) :
                     path \in {Initial, FallbackOf[osname]}}

-----------------------------------------------------------------------------
\* Properties.

\* C1: whenever a process returns, the directory of its log_path exists and
\* the process may create entries in it, also when the directory was there
\* before the call.
C1_ParentExistsAndWritable ==
  \A p \in Procs : Returned(p) =>
    /\ ParentDir(osname, log_path[p]) \in dirs
    /\ ParentDir(osname, log_path[p]) \in writable

\* C2: when the first os.makedirs fails and the initially resolved path is
\* not rooted under the directory /tmp, the process rebinds log_path to the
\* fixed fallback, retries once, and on a successful retry returns the
\* fallback with its directory made.
C2_FallbackUnlessRootedUnderTmp ==
  \A p \in Procs :
    (FirstFailed(p) /\ ~RootedUnderTmp(osname, Initial)) =>
      /\ attempts[p] = 2
      /\ log_path[p] = FixedFallback(osname)
      /\ Returned(p) => ParentDir(osname, FixedFallback(osname)) \in dirs

\* C3: a process ends in an error exactly when its first os.makedirs failed
\* and either the failing path was rooted under /tmp or the one retry failed
\* too.
C3_ErrorExactlyWhen ==
  \A p \in Procs : Terminal(p) =>
    /\ Raised(p) =>
         \/ RootedUnderTmp(osname, Initial)
         \/ attempts[p] = 2
    /\ (FirstFailed(p) /\ RootedUnderTmp(osname, Initial))
         => Raised(p)

\* C4: when PESAPAL_LOG_PATH is set to a path P whose parent directory exists
\* or can be made, on either host and whatever TEMP holds, the process
\* returns exactly P and the parent directory of P exists afterwards.
C4_OverrideReturned ==
  \A p \in Procs :
    (/\ LogPathSet
     /\ Initial # ""
     /\ \/ ParentDir(osname, Initial) \in dirs0
        \/ CanCreate(ParentDir(osname, Initial))
     /\ Terminal(p))
    => /\ Returned(p)
       /\ log_path[p] = environ["PESAPAL_LOG_PATH"]
       /\ ParentDir(osname, log_path[p]) \in dirs

C7_Idempotent ==
  \A p, q \in Procs :
    (p \in startedAfter[q] /\ Terminal(q)) =>
      Returned(q) /\ log_path[q] = log_path[p]

C7_Witness ==
  \E p, q \in Procs :
    /\ p \in startedAfter[q]
    /\ attempts[p] = 2
    /\ created[p] # {}
    /\ Returned(q)
    /\ attempts[q] = 2
    /\ created[q] = {}

\* C8: under every interleaving no process ends in an error because a
\* directory already exists, the processes that have ended all ended the
\* same way, and those that returned returned the same path.
C8_RaceSafe ==
  /\ \A p \in Procs : Raised(p) => errno[p] # "EEXIST"
  /\ \A p, q \in Procs :
       (Terminal(p) /\ Terminal(q)) => pc[p] = pc[q] /\ log_path[p] = log_path[q]

C8_Witness ==
  \E p, q \in Procs :
    /\ p # q
    /\ raced[p]
    /\ Returned(p)
    /\ Returned(q)
    /\ created[q] # {}

\* C9, as claimed: every returned path is absolute.
C9_ReturnedPathAbsolute ==
  \A p \in Procs : Returned(p) => IsAbs(osname, log_path[p])

\* C9, amended: a returned path that is not absolute is built from a
\* relative input: it is the value of PESAPAL_LOG_PATH, unchanged, and names
\* a directory, or it is the default path of a Windows-like host whose TEMP
\* is relative; a PESAPAL_LOG_PATH that names no directory (a bare file
\* name, the empty string) is replaced by the fallback path.
C9_RelativeOnlyFromInput ==
  \A p \in Procs : Returned(p) =>
    /\ ~IsAbs(osname, log_path[p]) =>
         \/ /\ LogPathSet
            /\ log_path[p] = environ["PESAPAL_LOG_PATH"]
            /\ DirnameOf[osname][log_path[p]] # ""
         \/ /\ ~LogPathSet
            /\ osname = "nt"
            /\ "TEMP" \in DOMAIN environ
            /\ ~IsAbs(osname, environ["TEMP"])
            /\ log_path[p] = environ["TEMP"] \o "\\pesapal_logs\\pesapal.log"
    /\ (LogPathSet /\ DirnameOf[osname][Initial] = "") =>
         log_path[p] = FixedFallback(osname)

C9_Witness ==
  \E p \in Procs :
    /\ Returned(p)
    /\ LogPathSet
    /\ ~IsAbs(osname, log_path[p])
    /\ created[p] # {}

\* C10: a process calls os.makedirs from the module at most twice, the
\* second time only after the first raised and always for the fixed fallback
\* path; what it returns is the initial path after one call and the fallback
\* after two; it takes at most 7 steps, and until it has ended it is at the
\* start or inside an os.makedirs call, where a step is always possible.
C10_AtMostTwoAttempts ==
  \A p \in Procs :
    /\ attempts[p] <= 2
    /\ attempts[p] = 2 => log_path[p] = FixedFallback(osname) /\ errno[p] # "none"
    /\ Returned(p) =>
         \/ attempts[p] = 1 /\ log_path[p] = Initial
         \/ attempts[p] = 2 /\ log_path[p] = FixedFallback(osname)
    /\ steps[p] <= 7
    /\ Terminal(p) \/ pc[p] = "start" \/ InMakedirs(p)

C10_Witness ==
  \E p \in Procs : Raised(p) /\ attempts[p] = 2 /\ steps[p] = 7

====
